---- MODULE Spec2Model ----
(***************************************************************************)
(* Model of JSONParser.h: the JSON::Value tree with its serializer         *)
(* (getRepresentation) and the recursive-descent JSON::Parser.             *)
(*                                                                         *)
(* Text is a sequence of one-character strings.  A number (long double /   *)
(* double in the source) is a decimal  m * 10^e  kept normalised (m = 0    *)
(* implies e = 0, otherwise m is not divisible by 10); binary rounding of  *)
(* decimals is not modelled, the printf/strtod digit handling is.          *)
(***************************************************************************)
EXTENDS Integers, Sequences, FiniteSets, TLC

\* ------------------------------------------------------------------ bounds
MaxLen == 3        \* longest raw input text over Alphabet
MaxNumLen == 5     \* longest raw number literal over NumAlphabet
MaxNodes == 3      \* most nodes in a Value tree that is rendered and parsed
MaxIndent == 1     \* widest indent passed to getRepresentation
MaxElems == 2      \* most elements pushed to an array by the Value program
MaxDepth == 1      \* deepest depth passed to getRepresentation
MaxLead == 1       \* most whitespace characters put before a rendering or in a gap
MaxEntries == 2    \* most "key":value entries of an object text written entry by entry

\* ------------------------------------------------------------- characters
NUL == "NUL"       \* the char '\0'
QUOTE == "\""
NL == "\n"
CR == "\r"
TAB == "\t"
SP == " "
Digits == <<"0", "1", "2", "3", "4", "5", "6", "7", "8", "9">>
DigitChars == {Digits[i] : i \in 1..10}

isdigit(c) == c \in DigitChars

DigitVal(c) == (CHOOSE i \in 1..10 : Digits[i] = c) - 1

RECURSIVE Pow10(_)
Pow10(n) == IF n <= 0 THEN 1 ELSE 10 * Pow10(n - 1)

Abs(n) == IF n < 0 THEN -n ELSE n

\* std::string(n, ' ')
Spaces(n) == [i \in 1..n |-> SP]

\* std::string::substr(pos, len) throws std::out_of_range when pos > size()
substrThrows(s, pos) == pos > Len(s)

\* std::string::substr(pos, len) for pos <= size()
substr(s, pos, len) ==
  LET n == IF len < Len(s) - pos THEN len ELSE Len(s) - pos
  IN  [i \in 1..n |-> s[pos + i]]

\* ---------------------------------------------------------------- numbers
Zero == [m |-> 0, e |-> 0]
One == [m |-> 1, e |-> 0]

RECURSIVE Normalise(_, _)
Normalise(m, e) ==
  IF m = 0 THEN Zero
  ELSE IF m % 10 = 0 THEN Normalise(m \div 10, e + 1)
  ELSE [m |-> m, e |-> e]

\* decimal digits of a natural number
RECURSIVE DigitsOf(_)
DigitsOf(n) ==
  IF n < 10 THEN <<Digits[n + 1]>>
  ELSE Append(DigitsOf(n \div 10), Digits[(n % 10) + 1])

NumDigits(n) == Len(DigitsOf(n))

\* (num - static_cast<long>(num)) == 0
IsIntegral(num) == num.e >= 0

\* std::to_string(long)
to_string_long(num) ==
  (IF num.m < 0 THEN <<"-">> ELSE <<>>)
    \o DigitsOf(Abs(num.m)) \o [i \in 1..num.e |-> "0"]

\* std::to_string(long double): printf("%Lf"), six digits after the point,
\* rounded to nearest (ties to even)
to_string_ld(num) ==
  LET a == Abs(num.m)
      scaled == IF num.e >= -6 THEN a * Pow10(num.e + 6)
                ELSE LET d == Pow10(-6 - num.e)
                         q == a \div d
                         r == a % d
                     IN  IF 2 * r > d \/ (2 * r = d /\ q % 2 = 1)
                         THEN q + 1 ELSE q
      ip == scaled \div 1000000
      fp == DigitsOf(scaled % 1000000)
  IN  (IF num.m < 0 THEN <<"-">> ELSE <<>>)
        \o DigitsOf(ip) \o <<".">>
        \o [i \in 1..(6 - Len(fp)) |-> "0"] \o fp

\* ------------------------------------------------------------------ Value
Value == [type |-> "Unknown", obj |-> <<>>, arr |-> <<>>, str |-> <<>>, num |-> Zero]

ValueOfType(t) == [Value EXCEPT !.type = t]

makeObject(o) == [Value EXCEPT !.type = "Object", !.obj = o]

makeArray(a) == [Value EXCEPT !.type = "Array", !.arr = a]

makeString(s) == [Value EXCEPT !.type = "String", !.str = s]

makeNumber(n) == [Value EXCEPT !.type = "Number", !.num = n]

makeBoolean(b) == [makeNumber(IF b THEN One ELSE Zero) EXCEPT !.type = "Boolean"]

makeNull == ValueOfType("Null")

toObject(v) == v.obj

toArray(v) == v.arr

toString(v) == v.str

toNumber(v) == v.num

toBoolean(v) == v.num.m # 0

getType(v) == v.type

\* obj[key]: std::unordered_map::operator[] inserts a default Value if absent
IndexKey(v, key) ==
  IF key \in DOMAIN v.obj THEN v
  ELSE [v EXCEPT !.obj = [k \in DOMAIN v.obj \cup {key} |->
                            IF k = key THEN Value ELSE v.obj[k]]]

\* obj.insert({key, w}): an entry already there is kept
AssignKey_keepsFirst(v, key, w) ==
  IF key \in DOMAIN v.obj THEN v
  ELSE [v EXCEPT !.obj = [k \in DOMAIN v.obj \cup {key} |->
                            IF k = key THEN w ELSE v.obj[k]]]

\* obj[key] = w
AssignKey(v, key, w) ==
  [v EXCEPT !.obj = [k \in DOMAIN v.obj \cup {key} |->
                       IF k = key THEN w ELSE v.obj[k]]]

\* pushToArray without the test of the tag
pushToArray_anyType(v, w) == [v EXCEPT !.arr = Append(@, w)]

pushToArray(v, w) ==
  IF getType(v) = "Array" THEN [v EXCEPT !.arr = Append(@, w)] ELSE v

\* ------------------------------------------------------------- serializer
Perms(S) == {f \in [1..Cardinality(S) -> S] : \A i, j \in DOMAIN f : f[i] = f[j] => i = j}

\* getRepresentation yields the set of texts the code can produce: an Object
\* is iterated in the order of its std::unordered_map, which is unspecified.
RECURSIVE getRepresentation(_, _, _)
RECURSIVE ArrayItems(_, _, _, _)
RECURSIVE ObjectItems(_, _, _, _, _)

\* the body of the for loop over arr, from element i on
ArrayItems(arr, i, indent, depth) ==
  IF i > Len(arr) THEN {<<>>}
  ELSE {(IF indent > 0 THEN <<NL>> \o Spaces(indent * (depth + 1)) ELSE <<>>)
          \o r
          \o (IF i # Len(arr) THEN <<",">> ELSE <<>>)
          \o rest :
            r \in getRepresentation(arr[i], indent, depth + 1),
            rest \in ArrayItems(arr, i + 1, indent, depth)}

\* the body of the for loop over obj, iterated in the order ord, from entry i on
ObjectItems(obj, ord, i, indent, depth) ==
  IF i > Len(ord) THEN {<<>>}
  ELSE {(IF indent > 0 THEN <<NL>> \o Spaces(indent * (depth + 1)) ELSE <<>>)
          \o <<QUOTE>> \o ord[i] \o <<QUOTE, ":">>
          \o (IF indent > 0 THEN <<SP>> ELSE <<>>)
          \o r
          \o (IF i # Len(ord) THEN <<",">> ELSE <<>>)
          \o rest :
            r \in getRepresentation(obj[ord[i]], indent, depth + 1),
            rest \in ObjectItems(obj, ord, i + 1, indent, depth)}

getRepresentation(v, indent, depth) ==
  CASE v.type = "Null" -> {<<"n", "u", "l", "l">>}
    [] v.type = "Boolean" ->
         {IF toBoolean(v) THEN <<"t", "r", "u", "e">> ELSE <<"f", "a", "l", "s", "e">>}
    [] v.type = "String" -> {<<QUOTE>> \o toString(v) \o <<QUOTE>>}
    [] v.type = "Number" ->
         {IF IsIntegral(v.num) THEN to_string_long(v.num) ELSE to_string_ld(v.num)}
    [] v.type = "Array" ->
         {<<"[">> \o body
            \o (IF indent > 0 THEN <<NL>> ELSE <<>>)
            \o Spaces(indent * depth) \o <<"]">> :
              body \in ArrayItems(toArray(v), 1, indent, depth)}
    [] v.type = "Object" ->
         {<<"{">> \o body
            \o (IF indent > 0 THEN <<NL>> ELSE <<>>)
            \o Spaces(indent * depth) \o <<"}">> :
              body \in UNION {ObjectItems(toObject(v), ord, 1, indent, depth) :
                                ord \in Perms(DOMAIN toObject(v))}}
    [] OTHER -> {<<>>}

\* ----------------------------------------------------------------- stod
CharAt(s, i) == IF i \in 1..Len(s) THEN s[i] ELSE NUL

RECURSIVE DigitRun(_, _)
DigitRun(s, i) == IF i <= Len(s) /\ isdigit(s[i]) THEN 1 + DigitRun(s, i + 1) ELSE 0

RECURSIVE DigitsValue(_, _, _)
DigitsValue(s, i, n) ==
  IF n = 0 THEN 0 ELSE 10 * DigitsValue(s, i, n - 1) + DigitVal(s[i + n - 1])

\* DBL_MAX = 1.79769313...e308, DBL_MIN = 2.22507385...e-308: strtod sets
\* ERANGE outside, and std::stod then throws std::out_of_range
InDoubleRange(d) ==
  LET nd == NumDigits(Abs(d.m))
      exp10 == nd + d.e - 1
      lead == Abs(d.m) * Pow10(9 - nd)
  IN  \/ d.m = 0
      \/ /\ exp10 <= 308 /\ (exp10 = 308 => lead <= 179769313)
         /\ exp10 >= -308 /\ (exp10 = -308 => lead >= 222507386)

\* std::stod on a text of digits, '+', '-', '.', 'e': converts the longest
\* prefix that is a decimal floating literal; std::invalid_argument when no
\* conversion can be performed
stod(s) ==
  LET neg == CharAt(s, 1) = "-"
      i0 == IF CharAt(s, 1) \in {"+", "-"} THEN 2 ELSE 1
      intLen == DigitRun(s, i0)
      hasDot == CharAt(s, i0 + intLen) = "."
      fracLen == IF hasDot THEN DigitRun(s, i0 + intLen + 1) ELSE 0
      j == i0 + intLen + (IF hasDot THEN 1 + fracLen ELSE 0)
      k0 == j + 1
      eneg == CharAt(s, k0) = "-"
      k == IF CharAt(s, k0) \in {"+", "-"} THEN k0 + 1 ELSE k0
      expLen == IF CharAt(s, j) = "e" THEN DigitRun(s, k) ELSE 0
      ex == IF eneg THEN -DigitsValue(s, k, expLen) ELSE DigitsValue(s, k, expLen)
      mant == DigitsValue(s, i0, intLen) * Pow10(fracLen)
                + DigitsValue(s, i0 + intLen + 1, fracLen)
      d == Normalise(IF neg THEN -mant ELSE mant, ex - fracLen)
  IN  IF intLen + fracLen = 0 THEN [kind |-> "invalid_argument", num |-> Zero]
      ELSE IF ~InDoubleRange(d) THEN [kind |-> "out_of_range", num |-> Zero]
      ELSE [kind |-> "ok", num |-> d]

\* ------------------------------------------------- Parser: state and helpers
VARIABLES
  input,    \* the text handed to the constructor, or held by the file
  origin,   \* the Value tree the input was rendered from, if any
  source,   \* how the Parser was obtained: "none", "string", "file", "nofile"
  parser,   \* the Parser object: content, currIdx, currChar, currLine, isOk
  cout,     \* std::cout: lines written, by kind
  stack,    \* call stack of the parser's member functions, innermost last
  ret,      \* value returned by the call that returned last, held as a Value
            \* (a bool as Boolean, a std::string as String)
  phase,    \* main(): "start", "ready", "parsing", "done", "thrown"
  exc,      \* the exception that escaped parse(), or "none"
  result,   \* the Value returned by parse()
  val,      \* the Value a program builds through the Value interface
  outcome   \* what the last call on val gave back

\* A Parser object together with std::cout, the state the member functions act on
Env == [content |-> parser.content, currIdx |-> parser.currIdx,
        currChar |-> parser.currChar, currLine |-> parser.currLine,
        isOk |-> parser.isOk, errors |-> cout.errors, warnings |-> cout.warnings]

ParserOf(s) == [content |-> s.content, currIdx |-> s.currIdx, currChar |-> s.currChar,
                currLine |-> s.currLine, isOk |-> s.isOk]

CoutOf(s) == [errors |-> s.errors, warnings |-> s.warnings]

Put(s) == parser' = ParserOf(s) /\ cout' = CoutOf(s)

\* member initialisers of class Parser
NewParser(text) == [content |-> text, currIdx |-> -1, currChar |-> NUL,
                    currLine |-> 1, isOk |-> TRUE]

advance(s) ==
  LET i == s.currIdx + 1
  IN  [s EXCEPT !.currIdx = i,
                !.currChar = IF i < Len(s.content) THEN s.content[i + 1] ELSE @]

isEOF(s) == s.currIdx >= Len(s.content)

\* isWhitespace that leaves out the line feed
isWhitespace_noNewline(c) == c = SP \/ c = CR \/ c = TAB

isWhitespace(c) == c = SP \/ c = NL \/ c = CR \/ c = TAB

\* reportError that writes the message and forgets the flag
reportError_keepsFlag(s) == [s EXCEPT !.errors = @ + 1]

reportError(s) == [s EXCEPT !.errors = @ + 1, !.isOk = FALSE]

\* consume that marks the parser as good again when the character matches
consume_resetsOk(s, c) ==
  IF s.currChar # c THEN reportError(s) ELSE [advance(s) EXCEPT !.isOk = TRUE]

consume(s, c) == IF s.currChar # c THEN reportError(s) ELSE advance(s)

\* ------------------------------------------------------------- call stack
Top == stack[Len(stack)]

Rest == SubSeq(stack, 1, Len(stack) - 1)

Running(fn, pc) == phase = "parsing" /\ stack # <<>> /\ Top.fn = fn /\ Top.pc = pc

Goto(f) == stack' = Append(Rest, f)

Call(f, callee) == stack' = Append(Append(Rest, f), callee)

Return(v) == stack' = Rest /\ ret' = v

\* an exception nobody catches leaves parse() and main()
Throw(e) == stack' = <<>> /\ exc' = e /\ phase' = "thrown"

Frame(fn, pc) == [fn |-> fn, pc |-> pc]

skipWhitespaceFrame == Frame("skipWhitespace", "loop")

validateIdentifierFrame(s, identifier) ==
  [fn |-> "validateIdentifier", pc |-> "loop", identifier |-> identifier,
   start |-> s.currIdx, len |-> 0]

parseNumberFrame(s) ==
  [fn |-> "parseNumber", pc |-> "loop", start |-> s.currIdx, len |-> 0,
   floatingPoint |-> FALSE, exponent |-> FALSE]

\* ------------------------------------------------------ main() and parse()
\* Parser(std::string content)
Parser ==
  /\ phase = "start"
  /\ parser' = ParserOf(advance(NewParser(input) @@ cout))
  /\ source' = "string"
  /\ phase' = "ready"
  /\ UNCHANGED <<val, outcome, input, origin, cout, stack, ret, exc, result>>

\* Parser::fromFile(filename): the file holds input, or cannot be opened
fromFile ==
  /\ phase = "start"
  /\ \E opened \in BOOLEAN :
       IF ~opened
       THEN /\ cout' = [cout EXCEPT !.errors = @ + 1]
            /\ parser' = [ParserOf(advance(NewParser(<<>>) @@ cout)) EXCEPT !.isOk = FALSE]
            /\ source' = "nofile"
       ELSE /\ cout' = cout
            /\ parser' = ParserOf(advance(NewParser(input) @@ cout))
            /\ source' = "file"
  /\ phase' = "ready"
  /\ UNCHANGED <<val, outcome, input, origin, stack, ret, exc, result>>

\* parse(): isOk = true; return parseElement();
parse ==
  /\ phase = "ready"
  /\ parser' = [parser EXCEPT !.isOk = TRUE]
  /\ stack' = <<Frame("parseElement", "switch")>>
  /\ phase' = "parsing"
  /\ UNCHANGED <<val, outcome, input, origin, source, cout, ret, exc, result>>

\* parse() hands the Value of parseElement() to main()
parse_return ==
  /\ phase = "parsing" /\ stack = <<>>
  /\ result' = ret
  /\ phase' = "done"
  /\ UNCHANGED <<val, outcome, input, origin, source, parser, cout, stack, ret, exc>>

\* ------------------------------------------------------------ parseElement
\* return Value(); without the report
parseElement_fail_silent ==
  /\ Put(Env)
  /\ Return(Value)
  /\ UNCHANGED <<val, outcome, input, origin, source, phase, exc, result>>

\* reportError("Unexpected character: ..."); return Value();
parseElement_fail ==
  /\ Put(reportError(Env))
  /\ Return(Value)
  /\ UNCHANGED <<val, outcome, input, origin, source, phase, exc, result>>

parseElement_switch ==
  /\ Running("parseElement", "switch")
  /\ LET c == parser.currChar
     IN  CASE c = "{" -> Call(Frame("parseElement", "return"), Frame("parseObject", "entry"))
           [] c = "[" -> Call(Frame("parseElement", "return"), Frame("parseArray", "entry"))
           [] c = QUOTE -> Call(Frame("parseElement", "string"), Frame("parseString", "entry"))
           [] c = "t" -> Call(Frame("parseElement", "true"),
                              validateIdentifierFrame(Env, <<"t", "r", "u", "e">>))
           [] c = "f" -> Call(Frame("parseElement", "false"),
                              validateIdentifierFrame(Env, <<"f", "a", "l", "s", "e">>))
           [] c = "n" -> Call(Frame("parseElement", "null"),
                              validateIdentifierFrame(Env, <<"n", "u", "l", "l">>))
           [] OTHER ->
                IF c = "+" \/ c = "-" \/ isdigit(c)
                THEN Call(Frame("parseElement", "return"), parseNumberFrame(Env))
                ELSE IF isWhitespace(c)
                THEN Call(Frame("parseElement", "error"), skipWhitespaceFrame)
                ELSE Goto(Frame("parseElement", "error"))
  /\ UNCHANGED <<val, outcome, input, origin, source, parser, cout, ret, phase, exc, result>>

\* return parseObject(); return parseArray(); return parseNumber();
parseElement_return ==
  /\ Running("parseElement", "return")
  /\ Return(ret)
  /\ UNCHANGED <<val, outcome, input, origin, source, parser, cout, phase, exc, result>>

\* return Value::makeString(str);
parseElement_string ==
  /\ Running("parseElement", "string")
  /\ Return(makeString(toString(ret)))
  /\ UNCHANGED <<val, outcome, input, origin, source, parser, cout, phase, exc, result>>

\* if (validateIdentifier(...)) return Value::make...; break;
parseElement_identifier ==
  /\ phase = "parsing" /\ stack # <<>> /\ Top.fn = "parseElement"
  /\ Top.pc \in {"true", "false", "null"}
  /\ IF toBoolean(ret)
     THEN /\ Return(CASE Top.pc = "true" -> makeBoolean(TRUE)
                      [] Top.pc = "false" -> makeBoolean(FALSE)
                      [] Top.pc = "null" -> makeNull)
          /\ UNCHANGED <<parser, cout>>
          /\ UNCHANGED <<val, outcome, input, origin, source, phase, exc, result>>
     ELSE parseElement_fail

\* the statements after the switch
parseElement_error ==
  /\ Running("parseElement", "error")
  /\ parseElement_fail

\* -------------------------------------------------- the scanning functions
\* one test of the loop condition of skipWhitespace, and the body or the return
skipWhitespace ==
  /\ Running("skipWhitespace", "loop")
  /\ IF ~isEOF(Env) /\ isWhitespace(parser.currChar)
     THEN /\ Put(advance(IF parser.currChar = NL
                         THEN [Env EXCEPT !.currLine = @ + 1] ELSE Env))
          /\ UNCHANGED <<stack, ret>>
     ELSE /\ stack' = Rest
          /\ UNCHANGED <<parser, cout, ret>>
  /\ UNCHANGED <<val, outcome, input, origin, source, phase, exc, result>>

\* one test of the loop condition of validateIdentifier, and the body or the return
validateIdentifier ==
  /\ Running("validateIdentifier", "loop")
  /\ IF ~isEOF(Env) /\ Top.len # Len(Top.identifier)
     THEN /\ Put(advance(Env))
          /\ Goto([Top EXCEPT !.len = @ + 1])
          /\ UNCHANGED <<ret, phase, exc>>
     ELSE IF substrThrows(parser.content, Top.start)
     THEN Throw("out_of_range") /\ UNCHANGED <<parser, cout, ret>>
     ELSE /\ Return(makeBoolean(substr(parser.content, Top.start, Top.len) = Top.identifier))
          /\ UNCHANGED <<parser, cout, phase, exc>>
  /\ UNCHANGED <<val, outcome, input, origin, source, result>>

\* if (currChar == '"') advance(); int start = currIdx; int len = 0;
parseString_entry ==
  /\ Running("parseString", "entry")
  /\ LET s == IF parser.currChar = QUOTE THEN advance(Env) ELSE Env
     IN  /\ Put(s)
         /\ Goto([fn |-> "parseString", pc |-> "loop", start |-> s.currIdx, len |-> 0])
  /\ UNCHANGED <<val, outcome, input, origin, source, ret, phase, exc, result>>

\* one test of the loop condition of parseString, and the body or
\* consume('"', ...); return content.substr(start, len);
parseString_loop ==
  /\ Running("parseString", "loop")
  /\ IF ~isEOF(Env) /\ parser.currChar # QUOTE
     THEN /\ Put(advance(Env))
          /\ Goto([Top EXCEPT !.len = @ + 1])
          /\ UNCHANGED <<ret, phase, exc>>
     ELSE /\ Put(consume(Env, QUOTE))
          /\ IF substrThrows(parser.content, Top.start)
             THEN Throw("out_of_range") /\ UNCHANGED ret
             ELSE /\ Return(makeString(substr(parser.content, Top.start, Top.len)))
                  /\ UNCHANGED <<phase, exc>>
  /\ UNCHANGED <<val, outcome, input, origin, source, result>>

\* the try block of parseNumber and what follows it, in the state s
parseNumber_convert(s) ==
  LET thrown == substrThrows(s.content, Top.start)
      conv == IF thrown THEN [kind |-> "out_of_range", num |-> Zero]
              ELSE stod(substr(s.content, Top.start, Top.len))
  IN  CASE conv.kind = "ok" ->
             /\ Put(s) /\ Return(makeNumber(conv.num)) /\ UNCHANGED <<phase, exc>>
        [] conv.kind = "out_of_range" ->
             /\ Put([s EXCEPT !.warnings = @ + 1])
             /\ Return(makeNumber(Zero)) /\ UNCHANGED <<phase, exc>>
        [] conv.kind = "invalid_argument" ->
             /\ Put(s) /\ Throw("invalid_argument") /\ UNCHANGED ret

\* one test of the loop condition of parseNumber, and the body or the conversion
parseNumber ==
  /\ Running("parseNumber", "loop")
  /\ LET c == parser.currChar
     IN  IF ~isEOF(Env) /\ (isdigit(c) \/ c = "+" \/ c = "-" \/ c = "." \/ c = "e")
         THEN IF (c = "." /\ Top.floatingPoint) \/ (c = "e" /\ Top.exponent)
              THEN parseNumber_convert(reportError(Env))
              ELSE /\ Put(advance(Env))
                   /\ Goto([Top EXCEPT !.len = @ + 1,
                                       !.floatingPoint = @ \/ c = ".",
                                       !.exponent = @ \/ c = "e"])
                   /\ UNCHANGED <<ret, phase, exc>>
         ELSE parseNumber_convert(Env)
  /\ UNCHANGED <<val, outcome, input, origin, source, result>>

\* ------------------------------------------------------------- parseObject
\* consume('}', "Expected '}' for object end"); return obj;   from the state s
parseObject_end(s, obj) ==
  /\ Put(consume(s, "}"))
  /\ Return(obj)

\* if (currChar == '{') advance(); skipWhitespace(); Value obj = makeObject();
parseObject_entry ==
  /\ Running("parseObject", "entry")
  /\ Put(IF parser.currChar = "{" THEN advance(Env) ELSE Env)
  /\ Call([fn |-> "parseObject", pc |-> "loop", obj |-> makeObject(<<>>),
           name |-> <<>>], skipWhitespaceFrame)
  /\ UNCHANGED <<val, outcome, input, origin, source, ret, phase, exc, result>>

\* while (!isEOF() && currChar != '}') { skipWhitespace(); ...
parseObject_loop ==
  /\ Running("parseObject", "loop")
  /\ IF ~isEOF(Env) /\ parser.currChar # "}"
     THEN /\ Call([Top EXCEPT !.pc = "key"], skipWhitespaceFrame)
          /\ UNCHANGED <<parser, cout, ret>>
     ELSE parseObject_end(Env, Top.obj)
  /\ UNCHANGED <<val, outcome, input, origin, source, phase, exc, result>>

\* std::string name = parseString();
parseObject_key ==
  /\ Running("parseObject", "key")
  /\ Call([Top EXCEPT !.pc = "name"], Frame("parseString", "entry"))
  /\ UNCHANGED <<val, outcome, input, origin, source, parser, cout, ret, phase, exc, result>>

\* ... name = <returned>; skipWhitespace();
parseObject_name ==
  /\ Running("parseObject", "name")
  /\ Call([Top EXCEPT !.pc = "colon", !.name = toString(ret)], skipWhitespaceFrame)
  /\ UNCHANGED <<val, outcome, input, origin, source, parser, cout, ret, phase, exc, result>>

\* if (currChar != ':') { reportError(...); break; } advance(); skipWhitespace();
parseObject_colon ==
  /\ Running("parseObject", "colon")
  /\ IF parser.currChar # ":"
     THEN parseObject_end(reportError(Env), Top.obj)
     ELSE /\ Put(advance(Env))
          /\ Call([Top EXCEPT !.pc = "value"], skipWhitespaceFrame)
          /\ UNCHANGED ret
  /\ UNCHANGED <<val, outcome, input, origin, source, phase, exc, result>>

\* Value element = parseElement();
parseObject_value ==
  /\ Running("parseObject", "value")
  /\ Call([Top EXCEPT !.pc = "element"], Frame("parseElement", "switch"))
  /\ UNCHANGED <<val, outcome, input, origin, source, parser, cout, ret, phase, exc, result>>

\* ... element = <returned>; skipWhitespace();
parseObject_element ==
  /\ Running("parseObject", "element")
  /\ Call([fn |-> "parseObject", pc |-> "store", obj |-> Top.obj, name |-> Top.name,
           element |-> ret], skipWhitespaceFrame)
  /\ UNCHANGED <<val, outcome, input, origin, source, parser, cout, ret, phase, exc, result>>

\* obj[name] = element; if (currChar != ',') break; advance();
parseObject_store ==
  /\ Running("parseObject", "store")
  /\ LET obj == AssignKey(Top.obj, Top.name, Top.element)
     IN  IF parser.currChar # ","
         THEN parseObject_end(Env, obj)
         ELSE /\ Put(advance(Env))
              /\ Goto([fn |-> "parseObject", pc |-> "loop", obj |-> obj, name |-> Top.name])
              /\ UNCHANGED ret
  /\ UNCHANGED <<val, outcome, input, origin, source, phase, exc, result>>

\* -------------------------------------------------------------- parseArray
\* the end of parseArray without the report of a missing ']'
parseArray_end_silent(s, arr) ==
  /\ Put(IF s.currChar = "]" THEN advance(s) ELSE s)
  /\ Return(makeArray(arr))

\* consume(']', "Expected ']' for array end"); return Value::makeArray(arr);
parseArray_end(s, arr) ==
  /\ Put(consume(s, "]"))
  /\ Return(makeArray(arr))

\* if (currChar == '[') advance(); skipWhitespace(); std::vector<Value> arr;
parseArray_entry ==
  /\ Running("parseArray", "entry")
  /\ Put(IF parser.currChar = "[" THEN advance(Env) ELSE Env)
  /\ Call([fn |-> "parseArray", pc |-> "loop", arr |-> <<>>], skipWhitespaceFrame)
  /\ UNCHANGED <<val, outcome, input, origin, source, ret, phase, exc, result>>

\* while (!isEOF() && currChar != ']') { skipWhitespace(); ...
parseArray_loop ==
  /\ Running("parseArray", "loop")
  /\ IF ~isEOF(Env) /\ parser.currChar # "]"
     THEN /\ Call([Top EXCEPT !.pc = "element"], skipWhitespaceFrame)
          /\ UNCHANGED <<parser, cout, ret>>
     ELSE parseArray_end(Env, Top.arr)
  /\ UNCHANGED <<val, outcome, input, origin, source, phase, exc, result>>

\* Value element = parseElement();
parseArray_element ==
  /\ Running("parseArray", "element")
  /\ Call([Top EXCEPT !.pc = "push"], Frame("parseElement", "switch"))
  /\ UNCHANGED <<val, outcome, input, origin, source, parser, cout, ret, phase, exc, result>>

\* arr.push_back(element); skipWhitespace();
parseArray_push ==
  /\ Running("parseArray", "push")
  /\ Call([Top EXCEPT !.pc = "separator", !.arr = Append(@, ret)], skipWhitespaceFrame)
  /\ UNCHANGED <<val, outcome, input, origin, source, parser, cout, ret, phase, exc, result>>

\* if (currChar != ',') break; advance();
parseArray_separator ==
  /\ Running("parseArray", "separator")
  /\ IF parser.currChar # ","
     THEN parseArray_end(Env, Top.arr)
     ELSE /\ Put(advance(Env))
          /\ Goto([Top EXCEPT !.pc = "loop"])
          /\ UNCHANGED ret
  /\ UNCHANGED <<val, outcome, input, origin, source, phase, exc, result>>

\* ------------------------------------------------------------------ inputs
Alphabet == {"[", "]", "{", "}", QUOTE, ":", ",", SP, "-", "1", "a"}

NumAlphabet == {"1", "9", ".", "e", "-", "+"}

Texts(A, n) == UNION {[1..k -> A] : k \in 0..n}

Keys == {<<>>, <<"a">>}

\* 3.5, 0.0000001 and -12
Leaves ==
  {makeNull, makeBoolean(TRUE), makeBoolean(FALSE), makeString(<<>>),
   makeString(<<"a">>), makeNumber([m |-> -12, e |-> 0]),
   makeNumber([m |-> 35, e |-> -1]), makeNumber([m |-> 1, e |-> -7])}

RECURSIVE TreesOfSize(_)
RECURSIVE SeqsOfSize(_)

\* the sequences of trees with n nodes in all
SeqsOfSize(n) ==
  IF n = 0 THEN {<<>>}
  ELSE UNION {{<<t>> \o rest : t \in TreesOfSize(j), rest \in SeqsOfSize(n - j)} :
                j \in 1..n}

\* the Values of the six JSON variants with n nodes
TreesOfSize(n) ==
  IF n = 1 THEN Leaves \cup {makeArray(<<>>), makeObject(<<>>)}
  ELSE {makeArray(a) : a \in SeqsOfSize(n - 1)}
         \cup UNION {LET ord == CHOOSE f \in Perms(K) : TRUE
                     IN  {makeObject([k \in K |-> a[CHOOSE i \in 1..Len(ord) : ord[i] = k]]) :
                            a \in {x \in SeqsOfSize(n - 1) : Len(x) = Cardinality(K)}} :
                       K \in (SUBSET Keys) \ {{}}}

Trees(n) == UNION {TreesOfSize(k) : k \in 1..n}

Prefixes(s) == {SubSeq(s, 1, k) : k \in 0..(Len(s) - 1)}

\* what an input was made from: has says that it is a rendering of tree (at
\* indent, after lead whitespace characters); entries are the entries of an
\* object text; gap > 0 says that it is the text of the Array tree with
\* whitespace in place of the ',' after element gap
NoOrigin == [has |-> FALSE, tree |-> Value, indent |-> 0, lead |-> 0,
             entries |-> <<>>, gap |-> 0]

Remove(s, i) == SubSeq(s, 1, i - 1) \o SubSeq(s, i + 1, Len(s))

Whitespace == Texts({SP, NL}, MaxLead) \ {<<>>}

\* leaves whose rendering holds no fractional number
EntryValues == {v \in Leaves : v.type = "Number" => IsIntegral(v.num)}

EntryLists ==
  UNION {[1..n -> [key : Keys, value : EntryValues]] : n \in 1..MaxEntries}

\* the object text {"k1":v1,"k2":v2,...} of a list of entries
RECURSIVE EntriesText(_, _)
EntriesText(es, i) ==
  IF i > Len(es) THEN <<>>
  ELSE <<QUOTE>> \o es[i].key \o <<QUOTE, ":">>
         \o (CHOOSE r \in getRepresentation(es[i].value, 0, 1) : TRUE)
         \o (IF i # Len(es) THEN <<",">> ELSE <<>>)
         \o EntriesText(es, i + 1)

ObjectText(es) == <<"{">> \o EntriesText(es, 1) \o <<"}">>

\* the texts of the array arr with the whitespace w after element g, not ','
GapTexts(arr, g, w) ==
  {<<"[">> \o a \o w \o b \o <<"]">> :
     a \in ArrayItems(SubSeq(arr, 1, g), 1, 0, 0),
     b \in ArrayItems(SubSeq(arr, g + 1, Len(arr)), 1, 0, 0)}

\* texts the parser is run on: every short text, every short number literal,
\* every truncated rendering of a small tree, every rendering of a tree,
\* whitespace followed by the rendering of a tree without fractional numbers,
\* every rendering of a small tree with one character left out, every object
\* text written entry by entry, and every array text with a gap for a ',' 
InputCases ==
  {[text |-> x, origin |-> NoOrigin] :
     x \in Texts(Alphabet, MaxLen) \cup Texts(NumAlphabet, MaxNumLen)}
  \cup UNION {{[text |-> x, origin |-> NoOrigin] :
                 x \in UNION {Prefixes(r) : r \in getRepresentation(t, 0, 0)}} :
                t \in Trees(MaxNodes - 1)}
  \cup UNION {{[text |-> r, origin |-> [NoOrigin EXCEPT !.has = TRUE, !.tree = t, !.indent = k]] :
                 r \in getRepresentation(t, k, 0)} :
                t \in Trees(MaxNodes), k \in 0..MaxIndent}
  \cup UNION {{[text |-> w \o r,
                origin |-> [NoOrigin EXCEPT !.has = TRUE, !.tree = t, !.lead = Len(w)]] :
                 r \in {x \in getRepresentation(t, 0, 0) : \A i \in 1..Len(x) : x[i] # "."}} :
                t \in Trees(MaxNodes - 1), w \in Whitespace}
  \cup UNION {{[text |-> Remove(r, i), origin |-> NoOrigin] :
                 i \in 1..Len(r)} :
                r \in UNION {getRepresentation(t, 0, 0) : t \in Trees(MaxNodes - 1)}}
  \cup {[text |-> ObjectText(es), origin |-> [NoOrigin EXCEPT !.entries = es]] :
          es \in EntryLists}
  \cup UNION {UNION {{[text |-> x, origin |-> [NoOrigin EXCEPT !.tree = t, !.gap = g]] :
                        x \in {y \in GapTexts(t.arr, g, w) :
                                 \A i \in 1..Len(y) : y[i] # "."}} :
                       g \in 1..(Len(t.arr) - 1), w \in Whitespace} :
                t \in {u \in Trees(MaxNodes) : u.type = "Array"}}

NoOutcome == [op |-> "none", arg |-> 0, status |-> "none", value |-> Value, text |-> <<>>]

pvars == <<input, origin, source, parser, cout, stack, ret, phase, exc, result>>

vars == <<input, origin, source, parser, cout, stack, ret, phase, exc, result, val, outcome>>

Init ==
  /\ \E c \in InputCases : input = c.text /\ origin = c.origin
  /\ source = "none"
  /\ parser = NewParser(<<>>)
  /\ cout = [errors |-> 0, warnings |-> 0]
  /\ stack = <<>>
  /\ ret = Value
  /\ phase = "start"
  /\ exc = "none"
  /\ result = Value
  /\ val = Value
  /\ outcome = NoOutcome

Next ==
  \/ Parser \/ fromFile \/ parse \/ parse_return
  \/ parseElement_switch \/ parseElement_return \/ parseElement_string
  \/ parseElement_identifier \/ parseElement_error
  \/ skipWhitespace \/ validateIdentifier
  \/ parseString_entry \/ parseString_loop \/ parseNumber
  \/ parseObject_entry \/ parseObject_loop \/ parseObject_key \/ parseObject_name
  \/ parseObject_colon \/ parseObject_value \/ parseObject_element \/ parseObject_store
  \/ parseArray_entry \/ parseArray_loop \/ parseArray_element \/ parseArray_push
  \/ parseArray_separator

Spec == Init /\ [][Next]_vars

\* the program is single-threaded and runs on: a step that can be taken is taken
SpecFair == Spec /\ WF_vars(Next)

\* ------------------------------------------- a program using class Value
\* what the constructors and factories give
Made ==
  {Value, makeObject(<<>>), makeArray(<<>>), makeString(<<>>), makeString(<<"a">>),
   makeNumber(Zero), makeNumber(One), makeBoolean(FALSE), makeBoolean(TRUE), makeNull}

\* the Values the program assigns and pushes
ArgValues ==
  {makeNull, makeBoolean(TRUE), makeNumber(One), makeString(<<"a">>),
   makeArray(<<>>), makeObject(<<>>)}

\* val = Value::make...(...), or Value()
Value_make ==
  /\ \E w \in Made : val' = w
  /\ outcome' = [NoOutcome EXCEPT !.op = "make"]
  /\ UNCHANGED pvars

\* val[key];
Value_indexKey ==
  /\ \E key \in Keys :
       /\ val' = IndexKey(val, key)
       /\ outcome' = [NoOutcome EXCEPT !.op = "indexKey", !.status = "element",
                                       !.value = IndexKey(val, key).obj[key]]
  /\ UNCHANGED pvars

\* val[key] = w;
Value_assignKey ==
  /\ \E key \in Keys, w \in ArgValues : val' = AssignKey(val, key, w)
  /\ outcome' = [NoOutcome EXCEPT !.op = "assignKey"]
  /\ UNCHANGED pvars

\* val[idx]; std::vector::operator[] does not check idx: out of range the
\* behaviour is undefined, a build hands back a reference to memory outside
\* the elements or, with library assertions on, aborts
Value_indexInt ==
  /\ \E idx \in -1..MaxElems :
       IF 0 <= idx /\ idx < Len(val.arr)
       THEN outcome' = [NoOutcome EXCEPT !.op = "indexInt", !.arg = idx,
                                         !.status = "element", !.value = val.arr[idx + 1]]
       ELSE \E st \in {"garbage", "abort"} :
              outcome' = [NoOutcome EXCEPT !.op = "indexInt", !.arg = idx, !.status = st]
  /\ val' = val
  /\ UNCHANGED pvars

\* val.pushToArray(w);
Value_pushToArray ==
  /\ Len(val.arr) < MaxElems
  /\ \E w \in ArgValues : val' = pushToArray(val, w)
  /\ outcome' = [NoOutcome EXCEPT !.op = "pushToArray"]
  /\ UNCHANGED pvars

\* val.getRepresentation(indent, depth);
Value_getRepresentation ==
  /\ \E indent \in 0..MaxIndent, depth \in 0..MaxDepth :
       \E r \in getRepresentation(val, indent, depth) :
         outcome' = [NoOutcome EXCEPT !.op = "getRepresentation", !.arg = indent, !.text = r]
  /\ val' = val
  /\ UNCHANGED pvars

InitValue ==
  /\ input = <<>> /\ origin = NoOrigin
  /\ source = "none"
  /\ parser = NewParser(<<>>)
  /\ cout = [errors |-> 0, warnings |-> 0]
  /\ stack = <<>>
  /\ ret = Value
  /\ phase = "start"
  /\ exc = "none"
  /\ result = Value
  /\ val = Value
  /\ outcome = NoOutcome

NextValue ==
  \/ Value_make \/ Value_indexKey \/ Value_assignKey \/ Value_indexInt
  \/ Value_pushToArray \/ Value_getRepresentation

SpecValue == InitValue /\ [][NextValue]_vars

\* ================================================================= claims
finished == phase \in {"done", "thrown"}

\* C1: parsing getRepresentation(0) of a tree of the six JSON variants returns
\* a Value equal to the tree, with isOK() true.
C1_RoundTrip ==
  (finished /\ source = "string" /\ origin.has /\ origin.indent = 0 /\ origin.lead = 0)
    => (phase = "done" /\ parser.isOk /\ result = origin.tree)

\* C2: for every input text parse() returns normally, no exception escapes.
C2_NeverThrows == phase # "thrown" /\ exc = "none"

\* the brackets still open at the end of text, scanned from position i with
\* the brackets in open; <<"!">> when the text is not one container holding
\* properly nested containers
RECURSIVE OpenAtEnd(_, _, _)
OpenAtEnd(text, i, open) ==
  IF i > Len(text) THEN open
  ELSE LET c == text[i]
       IN  IF open = <<>> /\ (i > 1 \/ c \notin {"[", "{"}) THEN <<"!">>
           ELSE IF c \in {"[", "{"} THEN OpenAtEnd(text, i + 1, Append(open, c))
           ELSE IF c \in {"]", "}"}
           THEN IF open[Len(open)] = (IF c = "]" THEN "[" ELSE "{")
                THEN OpenAtEnd(text, i + 1, SubSeq(open, 1, Len(open) - 1))
                ELSE <<"!">>
           ELSE OpenAtEnd(text, i + 1, open)

\* text is a container, without strings, that the end of the text leaves open
LeftOpen(text) ==
  /\ \A i \in 1..Len(text) : text[i] # QUOTE
  /\ OpenAtEnd(text, 1, <<>>) \notin {<<>>, <<"!">>}

\* C3: an input whose object or array is not closed by its own bracket before
\* the end of the input leaves isOK() false.
C3_UnclosedContainerReported ==
  (phase = "done" /\ source = "string" /\ LeftOpen(input)) => ~parser.isOk

\* C4: an input that opens a string with a double quote and ends before a
\* second double quote leaves isOK() false.
C4_UnterminatedStringReported ==
  (phase = "done" /\ source = "string" /\ Len(input) >= 1 /\ input[1] = QUOTE
     /\ \A i \in 2..Len(input) : input[i] # QUOTE)
    => ~parser.isOk

\* C5: parse() over whitespace followed by a well-formed element returns that
\* element's Value with isOK() true, as for the input without the whitespace.
C5_LeadingWhitespaceSkipped ==
  (finished /\ source = "string" /\ origin.has /\ origin.lead > 0)
    => (phase = "done" /\ parser.isOk /\ result = origin.tree)

\* C6: for every indent and depth getRepresentation of an Array with no
\* elements is exactly "[]" and of an Object with no entries exactly "{}".
C6_EmptyContainersCompact ==
  outcome.op = "getRepresentation"
    => /\ (val.type = "Array" /\ Len(val.arr) = 0) => outcome.text = <<"[", "]">>
       /\ (val.type = "Object" /\ DOMAIN val.obj = {}) => outcome.text = <<"{", "}">>

\* C7: arr[i] on an Array returns element i when 0 <= i < size and fails with
\* IndexOutOfRange otherwise.
C7_IndexChecked ==
  (outcome.op = "indexInt" /\ val.type = "Array")
    => IF 0 <= outcome.arg /\ outcome.arg < Len(val.arr)
       THEN outcome.status = "element" /\ outcome.value = val.arr[outcome.arg + 1]
       ELSE outcome.status = "IndexOutOfRange"

\* C8: each typed accessor whose variant does not match the tag of the Value
\* returns the empty or zero default.
C8_MismatchedAccessorDefaults ==
  /\ val.type # "Object" => DOMAIN toObject(val) = {}
  /\ val.type # "Array" => Len(toArray(val)) = 0
  /\ val.type # "String" => Len(toString(val)) = 0
  /\ val.type # "Number" => toNumber(val) = Zero

\* C9: a Parser that fromFile returns after failing to open the file is marked
\* failed, parse() on it returns, and isOK() is false after parse().
C9_OpenFailureDetected ==
  source = "nofile"
    => /\ phase # "thrown"
       /\ phase \in {"ready", "done"} => ~parser.isOk

C9_Witness == source = "nofile" /\ phase = "done" /\ ~parser.isOk

\* C10: the ok flag goes from false to true only on entry to parse(), and after
\* parse() returns isOK() is true exactly when reportError was not invoked.
C10_OkFlag ==
  /\ [](phase = "done" =>
          (parser.isOk <=> cout.errors = (IF source = "nofile" THEN 1 ELSE 0)))
  /\ [][(~parser.isOk /\ parser'.isOk) => (phase = "ready" /\ phase' = "parsing")]_vars

C10_Witness == phase = "done" /\ source = "string" /\ ~parser.isOk /\ cout.errors >= 2

\* C11: pushToArray(v) on an Array appends v after the elements already there,
\* which keep their order; on any other variant it changes nothing.
C11_PushToArrayFrame ==
  [][outcome'.op = "pushToArray" =>
       IF val.type = "Array"
       THEN /\ Len(val'.arr) = Len(val.arr) + 1
            /\ SubSeq(val'.arr, 1, Len(val.arr)) = val.arr
            /\ val'.arr[Len(val'.arr)] \in ArgValues
            /\ val'.type = "Array" /\ val'.obj = val.obj
            /\ val'.str = val.str /\ val'.num = val.num
       ELSE val' = val]_vars

C11_Witness == outcome.op = "pushToArray" /\ val.type = "Array" /\ Len(val.arr) = 2

\* C12: when the character at which parseObject expects a key is not a double
\* quote (here the character after the '{' that opens the input, neither
\* whitespace nor '}'), an error is reported and isOK() is false after parse().
C12_BareKeyReported ==
  (/\ phase = "done" /\ source = "string"
   /\ Len(input) >= 2 /\ input[1] = "{"
   /\ input[2] # QUOTE /\ input[2] # "}" /\ ~isWhitespace(input[2]))
    => ~parser.isOk

\* v holds a node of variant Unknown, at any depth
RECURSIVE HasUnknown(_)
HasUnknown(v) ==
  \/ v.type = "Unknown"
  \/ v.type = "Array" /\ \E i \in 1..Len(v.arr) : HasUnknown(v.arr[i])
  \/ v.type = "Object" /\ \E k \in DOMAIN v.obj : HasUnknown(v.obj[k])

\* C13: when parse() returns with isOK() true the returned tree holds no node
\* of variant Unknown.
C13_NoUnknownWhenOk == (phase = "done" /\ parser.isOk) => ~HasUnknown(result)

C13_Witness ==
  /\ phase = "done" /\ parser.isOk /\ result.type = "Array" /\ Len(result.arr) = 1
  /\ result.arr[1].type = "Object" /\ DOMAIN result.arr[1].obj # {}

\* C14: an object text with a key more than once parses to an Object with one
\* entry for each key of the text, holding the value of the last occurrence.
C14_LastDuplicateWins ==
  (finished /\ source = "string" /\ origin.entries # <<>>)
    => LET es == origin.entries
       IN  /\ phase = "done" /\ parser.isOk /\ result.type = "Object"
           /\ DOMAIN result.obj = {es[i].key : i \in 1..Len(es)}
           /\ \A i \in 1..Len(es) :
                (\A j \in (i + 1)..Len(es) : es[j].key # es[i].key)
                  => result.obj[es[i].key] = es[i].value

C14_Witness ==
  /\ phase = "done" /\ source = "string" /\ Len(origin.entries) >= 2
  /\ origin.entries[1].key = origin.entries[2].key
  /\ origin.entries[1].value # origin.entries[2].value

\* C15: when whitespace stands for the ',' between two array elements, the
\* returned Array holds exactly the elements before the gap and isOK() is false.
C15_MissingCommaStops ==
  (finished /\ source = "string" /\ origin.gap > 0)
    => /\ phase = "done" /\ ~parser.isOk
       /\ result = makeArray(SubSeq(origin.tree.arr, 1, origin.gap))

C15_Witness ==
  /\ phase = "done" /\ source = "string" /\ origin.gap > 0
  /\ Len(result.arr) = origin.gap /\ Len(origin.tree.arr) > origin.gap

\* the Value that parsing the compact rendering of v gives: each Number is
\* what std::stod reads from the text of the Number
RECURSIVE Reparsed(_)
Reparsed(v) ==
  CASE v.type = "Number" ->
         makeNumber(stod(CHOOSE r \in getRepresentation(v, 0, 0) : TRUE).num)
    [] v.type = "Array" -> makeArray([i \in 1..Len(v.arr) |-> Reparsed(v.arr[i])])
    [] v.type = "Object" /\ DOMAIN v.obj # {} ->
         makeObject([k \in DOMAIN v.obj |-> Reparsed(v.obj[k])])
    [] OTHER -> v

\* C16: for every tree and indent width, parsing getRepresentation(k) gives
\* isOK() true and the Value that parsing getRepresentation(0) gives.
C16_IndentedParsesAsCompact ==
  (finished /\ source = "string" /\ origin.has /\ origin.lead = 0)
    => (phase = "done" /\ parser.isOk /\ result = Reparsed(origin.tree))

C16_Witness ==
  /\ phase = "done" /\ source = "string" /\ origin.has /\ origin.indent > 0
  /\ parser.isOk /\ result.type = "Object" /\ DOMAIN result.obj # {}

\* a step that ends one iteration of a loop of the parser: of the scanning
\* loops, and of the element loops of parseArray and parseObject
LoopStep ==
  \/ Running("skipWhitespace", "loop") \/ Running("validateIdentifier", "loop")
  \/ Running("parseString", "loop") \/ Running("parseNumber", "loop")
  \/ Running("parseArray", "separator") \/ Running("parseObject", "store")

\* the cursor never decreases, and an iteration advances it or leaves the loop
C17_Progress ==
  /\ [][parser'.currIdx >= parser.currIdx]_vars
  /\ [][LoopStep => (parser'.currIdx > parser.currIdx \/ Len(stack') < Len(stack))]_vars

\* C17: for every input a parse() call eventually returns; the cursor never
\* decreases and every loop iteration advances it or leaves the loop.
C17_ParseReturns == <>(phase = "done") /\ C17_Progress

\* C18: from construction on 0 <= cursor <= length of the content, and the
\* current character is content[cursor] whenever cursor < length.
C18_CursorBound ==
  phase # "start"
    => /\ 0 <= parser.currIdx /\ parser.currIdx <= Len(parser.content)
       /\ parser.currIdx < Len(parser.content)
            => parser.currChar = parser.content[parser.currIdx + 1]

====
